---- MODULE Spec2Model ----
(***************************************************************************)
(* superreload: reloading (or wrapping) a batch of modules and repairing   *)
(* every reference to the members the modules exported before.             *)
(*                                                                         *)
(* Units are modules, Definitions are function and class objects compared  *)
(* by identity (an index into objs), an export table is a module __dict__  *)
(* (key -> object), an ancestor list is a class's __bases__, a Live        *)
(* Instance is an object with a __class__ pointer.                         *)
(***************************************************************************)
EXTENDS Integers, Sequences, FiniteSets, TLC

\* ------------------------------------------------------------------ bounds
MaxBatch == 2          \* longest list of modules passed to one call
MaxTrioBatch == 3      \* the same, in the runs over three reloadable modules
MaxCalls == 1
MaxSeqCalls == 2          \* calls of reload/wrap in one run
MaxRigid == 1          \* instances that refuse a new __class__ in one call
InstPerClass == 2      \* live instances constructed per initially loaded class

\* ------------------------------------------------------- program constants
max_fails == 10

\* -------------------------------------------------------------- the heap
Units == {"A", "B", "C"}                  \* sys.modules
ModuleOrder == <<"A", "B", "C">>          \* iteration order of sys.modules
KeyOrder == <<"f", "g", "K", "R", "S">>   \* iteration order of a module __dict__
Keys == {KeyOrder[i] : i \in 1..Len(KeyOrder)}
Absent == 0                               \* no object: dict.get's None

VARIABLES
    objs,              \* every function/class object ever created: id -> record
    dict,              \* dict[m][k]: module m's __dict__ (Absent when k is unset)
    itype,             \* itype[i]: the __class__ of live instance i
    file,              \* file[m]: the source text importlib.reload(m) would execute
    loaded,            \* loaded[m]: the source text m last executed successfully
    \* class-level caches of _ModuleUpdator (shared by all calls)
    old_members_set, old_members_map, reference_cache, instance_cache,
    \* the running call and the locals of superreload
    pc, call, mods, to_reload, fail_counter, errors, reloaded_mods, ui, rigid,
    \* history of the running call, kept for the properties only
    attempts, pre, mid, outcome, reported, ncalls

heap == <<objs, dict, itype>>
env == <<file, loaded>>
caches == <<old_members_set, old_members_map, reference_cache, instance_cache>>
locals == <<call, mods, to_reload, fail_counter, errors, reloaded_mods, ui, rigid>>
hist == <<attempts, pre, mid, outcome, reported, ncalls>>
vars == <<objs, dict, itype, file, loaded,
          old_members_set, old_members_map, reference_cache, instance_cache,
          pc, call, mods, to_reload, fail_counter, errors, reloaded_mods, ui, rigid,
          attempts, pre, mid, outcome, reported, ncalls>>

\* A function or class object. mod and name are __module__ and __name__, bases
\* is __bases__ (classes only); inner/qn record what a wrapper was applied to.
\* A class body of the model declares one member of each binding kind; calls
\* counts the wrapper applications to the member and qn is the name passed last.
ClassMembers == <<
    [name |-> "m", binding |-> "function", calls |-> 0, qn |-> <<>>],
    [name |-> "c", binding |-> "classmethod", calls |-> 0, qn |-> <<>>],
    [name |-> "s", binding |-> "staticmethod", calls |-> 0, qn |-> <<>>],
    [name |-> "x", binding |-> "data", calls |-> 0, qn |-> <<>>] >>

NewObj(kind, mod, name, bases) ==
    [kind |-> kind, mod |-> mod, name |-> name, bases |-> bases,
     inner |-> Absent, qn |-> <<>>,
     members |-> IF kind = "cls" THEN ClassMembers ELSE <<>>]

SeqRange(s) == {s[i] : i \in 1..Len(s)}
EmptyDict == [k \in Keys |-> Absent]

\* ------------------------------------------- source texts and recompilation
\* A source text gives one statement per export key.  del: the text leaves the
\* key unbound, removing an entry an earlier run left in the module's table;
\* fn/cls: a def or class statement (or an assignment of one) binding the key
\* to a new object whose __name__ is name; imp: from <unit> import <key'> as
\* <key>; raise: the text cannot be executed.
Del == [op |-> "del", name |-> "", refs |-> <<>>]
Fn(n) == [op |-> "fn", name |-> n, refs |-> <<>>]
Cls(n, refs) == [op |-> "cls", name |-> n, refs |-> refs]
Imp(u, k) == [op |-> "imp", name |-> "", refs |-> << <<u, k>> >>]
Raise == [op |-> "raise", name |-> "", refs |-> <<>>]

Source(f, g, K, R, S) == [k \in Keys |->
    CASE k = "f" -> f [] k = "g" -> g [] k = "K" -> K [] k = "R" -> R [] OTHER -> S]

\* Versions of tests/modB.py: b_func (f) and ClassB (K), and edits of them
\* (B_dup adds the module-level alias R = K).
SourcesB == [
    B_base  |-> Source(Fn("f"), Del, Cls("K", <<>>), Del, Del),
    B_noK   |-> Source(Fn("f"), Del, Del, Del, Del),
    B_nof   |-> Source(Del, Del, Cls("K", <<>>), Del, Del),
    B_plus  |-> Source(Fn("f"), Fn("g"), Cls("K", <<>>), Del, Del),
    B_twin  |-> Source(Fn("f"), Fn("f"), Cls("K", <<>>), Del, Del),
    B_alias |-> Source(Fn("f"), Del, Del, Cls("K", <<>>), Del),
    B_kind  |-> Source(Fn("f"), Del, Fn("K"), Del, Del),
    B_dup   |-> Source(Fn("f"), Del, Cls("K", <<>>), Imp("B", "K"), Del),
    B_fromC |-> Source(Imp("C", "g"), Fn("g"), Cls("K", <<>>), Del, Del),
    B_bad   |-> Source(Raise, Del, Del, Del, Del) ]

\* Versions of tests/modA.py: from .modB import b_func (f), from .modB import
\* ClassB as RenamedB (R), class ClassA(RenamedB) (S), and edits of them.
SourcesA == [
    A_base  |-> Source(Imp("B", "f"), Cls("g", <<>>), Del, Imp("B", "K"),
                       Cls("S", << <<"A", "g">>, <<"A", "R">> >>)),
    A_own   |-> Source(Fn("f"), Cls("g", <<>>), Del, Imp("B", "K"),
                       Cls("S", << <<"A", "g">>, <<"A", "R">> >>)),
    A_late  |-> Source(Imp("B", "f"), Cls("g", <<>>), Imp("B", "K"), Imp("B", "K"),
                       Cls("S", << <<"A", "g">>, <<"A", "R">> >>)),
    A_needs |-> Source(Imp("B", "f"), Imp("B", "g"), Del, Del, Del),
    A_alias |-> Source(Imp("B", "f"), Del, Del, Imp("B", "R"),
                       Cls("S", << <<"A", "R">> >>)),
    A_fromC |-> Source(Imp("C", "f"), Cls("g", <<>>), Del, Imp("B", "K"),
                       Cls("S", << <<"A", "g">>, <<"A", "R">> >>)),
    A_bad   |-> Source(Raise, Del, Del, Del, Del) ]

\* A third module that only exports a function f.
SourcesC == [
    C_base  |-> Source(Fn("f"), Del, Del, Del, Del),
    C_plus  |-> Source(Fn("f"), Fn("g"), Del, Del, Del),
    C_bad   |-> Source(Raise, Del, Del, Del, Del) ]

SourceIds(m) ==
    CASE m = "A" -> DOMAIN SourcesA [] m = "B" -> DOMAIN SourcesB
      [] OTHER -> DOMAIN SourcesC
SourceText(m, id) ==
    CASE m = "A" -> SourcesA[id] [] m = "B" -> SourcesB[id] [] OTHER -> SourcesC[id]

\* Executing one statement of module m's source for key k in state st =
\* [ok, dict, objs]; a statement that raises clears ok.
ExecStmt(s, m, k, st) ==
    LET fresh == Len(st.objs) + 1
        bases == [i \in 1..Len(s.refs) |-> st.dict[s.refs[i][1]][s.refs[i][2]]]
        target == st.dict[s.refs[1][1]][s.refs[1][2]]
        failed == [st EXCEPT !.ok = FALSE]
    IN  IF ~st.ok THEN st
        ELSE CASE s.op = "del" -> [st EXCEPT !.dict[m][k] = Absent]
               [] s.op = "fn" ->
                    [st EXCEPT !.dict[m][k] = fresh,
                               !.objs = Append(@, NewObj("fn", m, s.name, <<>>))]
               [] s.op = "cls" ->
                    IF \E i \in 1..Len(bases) :
                          bases[i] = Absent \/ st.objs[bases[i]].kind # "cls"
                    THEN failed
                    ELSE [st EXCEPT !.dict[m][k] = fresh,
                                    !.objs = Append(@, NewObj("cls", m, s.name, bases))]
               [] s.op = "imp" ->
                    IF target = Absent THEN failed
                    ELSE [st EXCEPT !.dict[m][k] = target]
               [] OTHER -> failed

RECURSIVE ExecFrom(_, _, _, _)
ExecFrom(i, src, m, st) ==
    IF i > Len(KeyOrder) THEN st
    ELSE ExecFrom(i + 1, src, m, ExecStmt(src[KeyOrder[i]], m, KeyOrder[i], st))

\* importlib.reload(m): re-executes m's source in m's own __dict__.  A run that
\* raises leaves the module as it was.
importlib_reload(m, d, o, src) ==
    LET r == ExecFrom(1, src, m, [ok |-> TRUE, dict |-> d, objs |-> o])
    IN  IF r.ok THEN r ELSE [ok |-> FALSE, dict |-> d, objs |-> o]

\* ------------------------------------------------------- helper functions
get_full_member_name(o, x) == <<o[x].mod, o[x].name>>

get_subclasses(o, class_) ==
    {s \in 1..Len(o) : o[s].kind = "cls" /\ class_ \in SeqRange(o[s].bases)}

\* The keys of module m's functions and classes, in __dict__ order.
iter_members(d, o, m) ==
    SelectSeq(KeyOrder, LAMBDA k :
        d[m][k] # Absent /\ o[d[m][k]].kind \in {"fn", "cls"})

iter_external_members(d, o, m) ==
    SelectSeq(iter_members(d, o, m), LAMBDA k : o[d[m][k]].mod # m)

iter_internal_members(d, o, m) ==
    SelectSeq(iter_members(d, o, m), LAMBDA k : o[d[m][k]].mod = m)

\* ------------------------------------------------------------- the caches
\* (A variant that collects the functions only.)
build_old_members_set_functions(d, o, ms) ==
    {x \in {d[m][k] : <<m, k>> \in {mk \in SeqRange(ms) \X Keys :
                                mk[2] \in SeqRange(iter_members(d, o, mk[1]))}} :
        o[x].kind = "fn"}

\* _build_old_member_cache, the set: every function and class in the __dict__
\* of the modules ms.
build_old_members_set(d, o, ms) ==
    {d[m][k] : <<m, k>> \in {mk \in SeqRange(ms) \X Keys :
                                mk[2] \in SeqRange(iter_members(d, o, mk[1]))}}

\* A module outside the batch has no entry; it is shown as the empty table.
build_old_members_map(d, ms) ==
    [m \in Units |-> IF m \in SeqRange(ms) THEN d[m] ELSE EmptyDict]

\* (A variant that records a holder under the member's own __name__ instead
\* of the holder's local name.)
ReferencesInByOwnName(d, o, m, old_set) ==
    LET ks == SelectSeq(iter_external_members(d, o, m),
                        LAMBDA k : d[m][k] \in old_set)
    IN  [i \in 1..Len(ks) |->
            [key |-> get_full_member_name(o, d[m][ks[i]]),
             mod |-> m, name |-> o[d[m][ks[i]]].name, member |-> d[m][ks[i]]]]

\* The entries one module contributes, in __dict__ order.
ReferencesIn(d, o, m, old_set) ==
    LET ks == SelectSeq(iter_external_members(d, o, m),
                        LAMBDA k : d[m][k] \in old_set)
    IN  [i \in 1..Len(ks) |->
            [key |-> get_full_member_name(o, d[m][ks[i]]),
             mod |-> m, name |-> ks[i], member |-> d[m][ks[i]]]]

\* The reference cache as the list of its entries in scan order; the list a
\* key maps to is the sub-list of the entries under that key.
RECURSIVE build_external_reference_cache(_, _, _, _)
build_external_reference_cache(i, d, o, old_set) ==
    IF i > Len(ModuleOrder) THEN <<>>
    ELSE ReferencesIn(d, o, ModuleOrder[i], old_set)
         \o build_external_reference_cache(i + 1, d, o, old_set)

\* The entries collected when the scan reaches position j of sys.modules.
RECURSIVE ScanUntil(_, _, _, _, _)
ScanUntil(i, j, d, o, old_set) ==
    IF i >= j \/ i > Len(ModuleOrder) THEN <<>>
    ELSE ReferencesIn(d, o, ModuleOrder[i], old_set)
         \o ScanUntil(i + 1, j, d, o, old_set)

\* instance_cache[i] is the class instance i is cached under, if any.
build_instance_cache(it, old_set) ==
    [i \in 1..Len(it) |-> IF it[i] \in old_set THEN it[i] ELSE Absent]

\* --------------------------------------------------------- propagation
\* dict.update over every holder cached under new_member's full name.
RECURSIVE RepointHolders(_, _, _, _)
RepointHolders(i, refs, new_member, d) ==
    IF i > Len(refs) THEN d
    ELSE RepointHolders(i + 1, refs, new_member,
                        [d EXCEPT ![refs[i].mod][refs[i].name] = new_member])

RECURSIVE RepointFrom(_, _, _, _, _, _)
RepointFrom(j, ks, m, o, rc, d) ==
    IF j > Len(ks) THEN d
    ELSE LET new_member == d[m][ks[j]]
             old_refs == SelectSeq(rc, LAMBDA e :
                             e.key = get_full_member_name(o, new_member))
         IN  RepointFrom(j + 1, ks, m, o, rc,
                         RepointHolders(1, old_refs, new_member, d))

update_other_modules_refs(m, d, o, rc) ==
    RepointFrom(1, iter_internal_members(d, o, m), m, o, rc, d)

\* (A variant that puts new_class first and keeps the entries it does not
\* replace behind it.)
new_bases_front(o, subclass, new_class) ==
    <<new_class>> \o SelectSeq(o[subclass].bases, LAMBDA b :
        ~(o[b].mod = o[new_class].mod /\ o[b].name = o[new_class].name))

\* The __bases__ update_subclasses computes for one subclass: an entry whose
\* __module__ and __name__ are new_class's is replaced by new_class.
new_bases(o, subclass, new_class) ==
    [i \in 1..Len(o[subclass].bases) |->
        IF /\ o[o[subclass].bases[i]].mod = o[new_class].mod
           /\ o[o[subclass].bases[i]].name = o[new_class].name
        THEN new_class ELSE o[subclass].bases[i]]

\* Assigning __bases__ raises TypeError for a base that is no class and for a
\* base listed twice.
BasesRejected(o, bs) ==
    \/ \E i \in 1..Len(bs) : o[bs[i]].kind # "cls"
    \/ \E i, j \in 1..Len(bs) : i # j /\ bs[i] = bs[j]

\* Subclasses are visited in creation order; the first assignment that raises
\* ends the loop (and the call), the earlier ones stay done.
update_subclasses(o, old_class, new_class) ==
    LET subs == get_subclasses(o, old_class)
        bad == {s \in subs : BasesRejected(o, new_bases(o, s, new_class))}
        done == {s \in subs : \A b \in bad : s < b}
    IN  [ok |-> bad = {},
         objs |-> [s \in 1..Len(o) |->
                     IF s \in done
                     THEN [o[s] EXCEPT !.bases = new_bases(o, s, new_class)]
                     ELSE o[s]]]

\* (A variant without the handler: the first refused assignment ends the loop
\* over the cached instances.)
update_instances_unhandled(it, o, ic, rg, old_class, new_class) ==
    [i \in 1..Len(it) |->
        IF /\ ic[i] = old_class /\ o[new_class].kind = "cls"
           /\ ~\E j \in rg : j <= i /\ ic[j] = old_class
        THEN new_class ELSE it[i]]

\* (A variant that retypes an instance even when the assignment is refused.)
update_instances_forced(it, o, ic, rg, old_class, new_class) ==
    [i \in 1..Len(it) |->
        IF ic[i] = old_class /\ o[new_class].kind = "cls"
        THEN new_class ELSE it[i]]

\* ref.__class__ = new_class for every instance cached under old_class; an
\* assignment that raises is logged and skipped.
update_instances(it, o, ic, rg, old_class, new_class) ==
    [i \in 1..Len(it) |->
        IF ic[i] = old_class /\ i \notin rg /\ o[new_class].kind = "cls"
        THEN new_class ELSE it[i]]

\* The classes a module owned before the call, in the order of its old table.
old_internal_classes(o, omap, m) ==
    LET ks == SelectSeq(KeyOrder, LAMBDA k :
                  omap[m][k] # Absent /\ o[omap[m][k]].kind = "cls"
                  /\ o[omap[m][k]].mod = m)
    IN  [i \in 1..Len(ks) |-> omap[m][ks[i]]]

\* (A variant that, finding nothing under the old class's __name__, takes a
\* class of that __name__ the module holds under another key.)
new_class_of_any_key(d, o, m, old_class) ==
    LET ks == {k \in Keys : /\ d[m][k] # Absent /\ o[d[m][k]].kind = "cls"
                            /\ o[d[m][k]].mod = m
                            /\ o[d[m][k]].name = o[old_class].name}
    IN  IF o[old_class].name \in Keys /\ d[m][o[old_class].name] # Absent
        THEN d[m][o[old_class].name]
        ELSE IF ks # {} THEN d[m][CHOOSE k \in ks : TRUE] ELSE Absent

\* mod.__dict__.get(old_class.__name__)
new_class_of(d, o, m, old_class) ==
    IF o[old_class].name \in Keys THEN d[m][o[old_class].name] ELSE Absent

\* The loop over old_internal_classes, on st = [ok, objs, itype].
RECURSIVE UpdateClassesFrom(_, _, _, _, _, _, _)
UpdateClassesFrom(i, olds, m, d, ic, rg, st) ==
    IF i > Len(olds) \/ ~st.ok THEN st
    ELSE LET new_class == new_class_of(d, st.objs, m, olds[i])
             sub == update_subclasses(st.objs, olds[i], new_class)
         IN  IF new_class = Absent
             THEN UpdateClassesFrom(i + 1, olds, m, d, ic, rg, st)
             ELSE IF ~sub.ok
             THEN [ok |-> FALSE, objs |-> sub.objs, itype |-> st.itype]
             ELSE UpdateClassesFrom(i + 1, olds, m, d, ic, rg,
                     [ok |-> TRUE, objs |-> sub.objs,
                      itype |-> update_instances(st.itype, sub.objs, ic, rg,
                                                 olds[i], new_class)])

\* One iteration of update_stale_modules_and_instances, for module m.
update_stale_module(m, d, o, it, omap, rc, ic, rg) ==
    LET d1 == update_other_modules_refs(m, d, o, rc)
        r == UpdateClassesFrom(1, old_internal_classes(o, omap, m), m, d1, ic, rg,
                               [ok |-> TRUE, objs |-> o, itype |-> it])
    IN  [ok |-> r.ok, dict |-> d1, objs |-> r.objs, itype |-> r.itype]

\* ------------------------------------------------------------- wrapping
\* The wrapper functions a caller may pass: one built with functools.wraps
\* (the result carries the original's __module__ and __name__), one without
\* (the result is a function named "wrapped" of the caller's module), and one
\* that returns the function unchanged.
Wrappers == {"wraps", "plain", "ident"}

\* wrapper_fxn(member, full_name) on the heap o: [objs, result].
wrapper_fxn(w, o, member, full_name) ==
    CASE w = "wraps" ->
           [objs |-> Append(o, [NewObj("fn", o[member].mod, o[member].name, <<>>)
                                  EXCEPT !.inner = member, !.qn = full_name]),
            result |-> Len(o) + 1]
      [] w = "plain" ->
           [objs |-> Append(o, [NewObj("fn", "W", "wrapped", <<>>)
                                  EXCEPT !.inner = member, !.qn = full_name]),
            result |-> Len(o) + 1]
      [] OTHER -> [objs |-> o, result |-> member]

\* wrap_class: every function, classmethod and staticmethod of the class's own
\* __dict__ is replaced by the wrapper's result, rewrapped in its binding kind.
wrap_class(o, class_) ==
    LET ms == o[class_].members
    IN  [o EXCEPT ![class_].members =
            [i \in 1..Len(ms) |->
                IF ms[i].binding \in {"function", "classmethod", "staticmethod"}
                THEN [ms[i] EXCEPT
                        !.calls = ms[i].calls + 1,
                        !.qn = <<o[class_].mod, o[class_].name, ms[i].name>>]
                ELSE ms[i]]]

\* The loop over the internal members of one module, on st = [dict, objs]; the
\* members are listed before the loop and the table is updated after it.
RECURSIVE WrapMembersFrom(_, _, _, _, _, _)
WrapMembersFrom(i, ks, m, w, d0, st) ==
    IF i > Len(ks) THEN st
    ELSE LET member == d0[m][ks[i]]
             r == wrapper_fxn(w, st.objs, member, get_full_member_name(st.objs, member))
         IN  IF st.objs[member].kind = "fn"
             THEN WrapMembersFrom(i + 1, ks, m, w, d0,
                     [dict |-> [st.dict EXCEPT ![m][ks[i]] = r.result],
                      objs |-> r.objs])
             ELSE WrapMembersFrom(i + 1, ks, m, w, d0,
                     [dict |-> st.dict, objs |-> wrap_class(st.objs, member)])

RECURSIVE WrapModulesFrom(_, _, _, _)
WrapModulesFrom(i, ms, w, st) ==
    IF i > Len(ms) THEN st
    ELSE WrapModulesFrom(i + 1, ms, w,
            WrapMembersFrom(1, iter_internal_members(st.dict, st.objs, ms[i]),
                            ms[i], w, st.dict, st))


\* ------------------------------------------------------------ the system
BatchesOf(ms, n) == UNION {[1..k -> ms] : k \in 1..n}
Snapshot == [dict |-> dict, objs |-> objs, itype |-> itype, loaded |-> loaded]
NoAttempts == [m \in Units |-> 0]

\* The classes of a heap in creation order, and the instances the host
\* constructs from them: InstPerClass of each.
ClassesOf(o) == SelectSeq([i \in 1..Len(o) |-> i], LAMBDA x : o[x].kind = "cls")
InstancesOf(o) ==
    [i \in 1..(Len(ClassesOf(o)) * InstPerClass) |->
        ClassesOf(o)[((i - 1) \div InstPerClass) + 1]]

\* The host imports C, B and A (A imports from the others), each from one of
\* its source texts, and constructs the instances; no call has run yet.
Loaded(sa, sb, sc) ==
    LET rc == importlib_reload("C", [m \in Units |-> EmptyDict], <<>>,
                               SourceText("C", sc))
        rb == importlib_reload("B", rc.dict, rc.objs, SourceText("B", sb))
        ra == importlib_reload("A", rb.dict, rb.objs, SourceText("A", sa))
    IN  [ok |-> rc.ok /\ rb.ok /\ ra.ok, dict |-> ra.dict, objs |-> ra.objs]

InitFrom(sa, sb, sc) ==
    LET r == Loaded(sa, sb, sc)
        fs == [m \in Units |-> CASE m = "A" -> sa [] m = "B" -> sb [] OTHER -> sc]
        snap == [dict |-> r.dict, objs |-> r.objs, itype |-> InstancesOf(r.objs),
                 loaded |-> fs]
    IN  /\ r.ok
        /\ objs = r.objs /\ dict = r.dict /\ itype = InstancesOf(r.objs)
        /\ file = fs /\ loaded = fs
        /\ old_members_set = {}
        /\ old_members_map = [m \in Units |-> EmptyDict]
        /\ reference_cache = <<>>
        /\ instance_cache = [i \in 1..Len(InstancesOf(r.objs)) |-> Absent]
        /\ pc = "idle" /\ call = "none" /\ mods = <<>> /\ to_reload = <<>>
        /\ fail_counter = NoAttempts /\ errors = {} /\ reloaded_mods = <<>>
        /\ ui = 1 /\ rigid = {}
        /\ attempts = NoAttempts /\ pre = snap /\ mid = snap
        /\ outcome = "none" /\ reported = {} /\ ncalls = 0

Init == \E sa \in SourceIds("A"), sb \in SourceIds("B") : InitFrom(sa, sb, "C_base")

\* (A variant in which _instance_cache is not cleared: an instance that is not
\* cached now keeps the entry an earlier call made for it.)
build_caches_kept(ms, d, o, it) ==
    LET old_set == build_old_members_set(d, o, ms)
    IN  /\ old_members_set' = old_set
        /\ old_members_map' = build_old_members_map(d, ms)
        /\ reference_cache' = build_external_reference_cache(1, d, o, old_set)
        /\ instance_cache' = [i \in 1..Len(it) |->
                                IF it[i] \in old_set THEN it[i] ELSE instance_cache[i]]

\* build_caches(mods), on the heap <<d, o, it>>
build_caches(ms, d, o, it) ==
    LET old_set == build_old_members_set(d, o, ms)
    IN  /\ old_members_set' = old_set
        /\ old_members_map' = build_old_members_map(d, ms)
        /\ reference_cache' = build_external_reference_cache(1, d, o, old_set)
        /\ instance_cache' = build_instance_cache(it, old_set)

\* superreload(mods), up to the while loop.  new_file is what the source files
\* hold when the call is made: the caller may have edited those of the batch.
Reload(batch, new_file) ==
    /\ pc = "idle"
    /\ \A m \in Units \ SeqRange(batch) : new_file[m] = file[m]
    /\ file' = new_file
    /\ build_caches(batch, dict, objs, itype)
    /\ pc' = "reloading" /\ call' = "reload" /\ mods' = batch
    /\ to_reload' = batch /\ fail_counter' = NoAttempts /\ errors' = {}
    /\ reloaded_mods' = <<>> /\ ui' = 1 /\ rigid' = {}
    /\ attempts' = NoAttempts /\ pre' = Snapshot /\ mid' = Snapshot
    /\ outcome' = "running" /\ reported' = {} /\ ncalls' = ncalls + 1
    /\ UNCHANGED <<heap, loaded>>

\* (A variant that leaves the failed module at the front of the queue.)
requeued_in_place(q) == q

\* to_reload after pop(0) and append(mod) of the popped module.
requeued(q) == Append(Tail(q), Head(q))

\* One iteration of the while loop of superreload, r being what
\* importlib.reload(mod) does: [ok, dict, objs].
AttemptWith(r) ==
    /\ pc = "reloading" /\ to_reload # <<>>
    /\ LET mod == Head(to_reload)
           fails == fail_counter[mod]
           cur_fails == fails + 1
       IN  IF fails < max_fails
           THEN /\ attempts' = [attempts EXCEPT ![mod] = @ + 1]
                /\ IF r.ok
                   THEN /\ dict' = r.dict /\ objs' = r.objs
                        /\ loaded' = [loaded EXCEPT ![mod] = file[mod]]
                        /\ reloaded_mods' = Append(reloaded_mods, mod)
                        /\ to_reload' = Tail(to_reload)
                        /\ UNCHANGED <<fail_counter, errors>>
                   ELSE IF cur_fails = max_fails
                   THEN /\ errors' = errors \cup {mod}
                        /\ to_reload' = Tail(to_reload)
                        /\ UNCHANGED <<dict, objs, loaded, reloaded_mods, fail_counter>>
                   ELSE /\ fail_counter' = [fail_counter EXCEPT ![mod] = cur_fails]
                        /\ to_reload' = requeued(to_reload)
                        /\ UNCHANGED <<dict, objs, loaded, reloaded_mods, errors>>
           ELSE /\ to_reload' = Tail(to_reload)
                /\ UNCHANGED <<dict, objs, loaded, reloaded_mods, fail_counter,
                               errors, attempts>>
    /\ UNCHANGED <<itype, file, caches, pc, call, mods, ui, rigid,
                   pre, mid, outcome, reported, ncalls>>

\* The iteration when importlib.reload executes the module's source text.
Attempt ==
    /\ to_reload # <<>>
    /\ AttemptWith(importlib_reload(Head(to_reload), dict, objs,
                                    SourceText(Head(to_reload), file[Head(to_reload)])))

\* The iteration when importlib.reload raises for a reason outside the source
\* text (the file cannot be read, an import-time side effect fails).
AttemptRaises ==
    /\ to_reload # <<>>
    /\ AttemptWith([ok |-> FALSE, dict |-> dict, objs |-> objs])

\* The loop has ended: update_stale_modules_and_instances(reloaded_mods) starts.
\* Which of the cached instances refuse a new __class__ is the heap's choice.
Drain ==
    /\ pc = "reloading" /\ to_reload = <<>>
    /\ pc' = "updating" /\ ui' = 1
    /\ \E rg \in SUBSET {i \in 1..Len(itype) : instance_cache[i] # Absent} :
          Cardinality(rg) <= MaxRigid /\ rigid' = rg
    /\ mid' = Snapshot
    /\ UNCHANGED <<heap, env, caches, call, mods, to_reload, fail_counter, errors,
                   reloaded_mods, attempts, pre, outcome, reported, ncalls>>

\* The list update_stale_modules_and_instances is called with.
stale_mods == IF call = "reload" THEN reloaded_mods ELSE mods

\* One iteration of the loop of update_stale_modules_and_instances; an
\* exception it does not catch ends the call.
Update ==
    /\ pc = "updating" /\ ui <= Len(stale_mods)
    /\ LET r == update_stale_module(stale_mods[ui], dict, objs, itype,
                                    old_members_map, reference_cache,
                                    instance_cache, rigid)
       IN  /\ dict' = r.dict /\ objs' = r.objs /\ itype' = r.itype
           /\ IF r.ok
              THEN /\ ui' = ui + 1
                   /\ UNCHANGED <<pc, outcome>>
              ELSE /\ pc' = "idle" /\ outcome' = "raised"
                   /\ UNCHANGED ui
    /\ UNCHANGED <<env, caches, call, mods, to_reload, fail_counter, errors,
                   reloaded_mods, rigid, attempts, pre, mid, reported, ncalls>>

\* The call returns; superreload first logs every module in errors.
Return ==
    /\ pc = "updating" /\ ui > Len(stale_mods)
    /\ pc' = "idle" /\ outcome' = "returned"
    /\ reported' = IF call = "reload" THEN errors ELSE {}
    /\ UNCHANGED <<heap, env, caches, call, mods, to_reload, fail_counter, errors,
                   reloaded_mods, ui, rigid, attempts, pre, mid, ncalls>>

\* superwrapper(mods, wrapper_fxn), up to update_stale_modules_and_instances.
Wrap(batch, w) ==
    /\ pc = "idle"
    /\ build_caches(batch, dict, objs, itype)
    /\ LET r == WrapModulesFrom(1, batch, w, [dict |-> dict, objs |-> objs])
       IN  /\ dict' = r.dict /\ objs' = r.objs
           /\ mid' = [dict |-> r.dict, objs |-> r.objs, itype |-> itype,
                       loaded |-> loaded]
    /\ pc' = "updating" /\ call' = "wrap" /\ mods' = batch
    /\ to_reload' = <<>> /\ fail_counter' = NoAttempts /\ errors' = {}
    /\ reloaded_mods' = <<>> /\ ui' = 1 /\ rigid' = {}
    /\ attempts' = NoAttempts /\ pre' = Snapshot
    /\ outcome' = "running" /\ reported' = {} /\ ncalls' = ncalls + 1
    /\ UNCHANGED <<itype, env>>

\* A call (reload or wrap) during whose reference-cache scan a loaded module,
\* met at position j of sys.modules, raises while it is introspected
\* (mod.__dict__, isinstance, __module__ or hash of a member raising).  No
\* handler encloses the scan, so build_caches and the call end there.
ScanRaises(batch, kind, j) ==
    /\ pc = "idle"
    /\ LET old_set == build_old_members_set(dict, objs, batch)
       IN  /\ old_members_set' = old_set
           /\ old_members_map' = build_old_members_map(dict, batch)
           /\ reference_cache' = ScanUntil(1, j, dict, objs, old_set)
    /\ call' = kind /\ mods' = batch
    /\ to_reload' = <<>> /\ fail_counter' = NoAttempts /\ errors' = {}
    /\ reloaded_mods' = <<>> /\ ui' = 1 /\ rigid' = {}
    /\ attempts' = NoAttempts /\ pre' = Snapshot /\ mid' = Snapshot
    /\ outcome' = "scan_raised" /\ reported' = {} /\ ncalls' = ncalls + 1
    /\ UNCHANGED <<heap, env, instance_cache, pc>>

\* The source files at a call: those of A, B and C replaced by sa, sb and sc.
Files(sa, sb, sc) ==
    [m \in Units |-> CASE m = "A" -> sa [] m = "B" -> sb [] OTHER -> sc]

\* Calls on lists of A and B, from any loaded program, with any edit of the
\* sources; recompilation fails only when the source text cannot be executed.
Next ==
    \/ /\ pc = "idle" /\ ncalls < MaxCalls
       /\ \E batch \in BatchesOf({"A", "B"}, MaxBatch),
             sa \in SourceIds("A"), sb \in SourceIds("B") :
             Reload(batch, Files(sa, sb, file["C"]))
    \/ /\ pc = "idle" /\ ncalls < MaxCalls
       /\ \E batch \in BatchesOf({"A", "B"}, MaxBatch), w \in Wrappers :
             Wrap(batch, w)
    \/ /\ pc = "idle" /\ ncalls < MaxCalls
       /\ \E batch \in BatchesOf({"A", "B"}, MaxBatch), kind \in {"reload", "wrap"},
             j \in 1..(Len(ModuleOrder) + 1) :
             ScanRaises(batch, kind, j)
    \/ Attempt
    \/ Drain
    \/ Update
    \/ Return

Spec == Init /\ [][Next]_vars

\* The retry loop alone: reload of lists of A and B from the test program,
\* each source either unchanged or not executable, and a recompilation that
\* may also fail for a reason outside the source text.
NextDriver ==
    \/ /\ pc = "idle" /\ ncalls < MaxCalls
       /\ \E batch \in BatchesOf({"A", "B"}, MaxBatch),
             sa \in {"A_base", "A_bad"}, sb \in {"B_base", "B_bad"} :
             Reload(batch, Files(sa, sb, file["C"]))
    \/ Attempt
    \/ AttemptRaises
    \/ Drain
    \/ Update
    \/ Return

SpecDriver == InitFrom("A_base", "B_base", "C_base") /\ [][NextDriver]_vars

\* Reload of lists of all three modules from the test program: A may have
\* been edited to import f from C instead of B, and B and C may have been made
\* not executable.
NextTrio ==
    \/ /\ pc = "idle" /\ ncalls < MaxCalls
       /\ \E batch \in BatchesOf(Units, MaxTrioBatch),
             sa \in {"A_base", "A_fromC"}, sb \in {"B_base", "B_bad"},
             sc \in {"C_base", "C_bad"} :
             Reload(batch, Files(sa, sb, sc))
    \/ Attempt
    \/ Drain
    \/ Update
    \/ Return

SpecTrio == InitFrom("A_base", "B_base", "C_base") /\ [][NextTrio]_vars

\* Sequences of calls on the test program: reload or wrap of A, of B or of
\* both, where a class of B may be exported under another name (and A
\* edited to import it), and a scan that may raise.
NextCalls ==
    \/ /\ pc = "idle" /\ ncalls < MaxSeqCalls
       /\ \E batch \in {<<"A">>, <<"B">>, <<"A", "B">>},
             sa \in {"A_base", "A_alias"}, sb \in {"B_base", "B_alias"} :
             Reload(batch, Files(sa, sb, file["C"]))
    \/ /\ pc = "idle" /\ ncalls < MaxSeqCalls
       /\ \E batch \in {<<"A">>, <<"B">>, <<"A", "B">>} : Wrap(batch, "wraps")
    \/ /\ pc = "idle" /\ ncalls < MaxSeqCalls
       /\ \E batch \in {<<"A">>, <<"B">>}, kind \in {"reload", "wrap"} :
             ScanRaises(batch, kind, 2)
    \/ Attempt
    \/ Drain
    \/ Update
    \/ Return

SpecCalls == InitFrom("A_base", "B_base", "C_base") /\ [][NextCalls]_vars

\* The lists that name every module of the set ms once, in any order.
Perms(ms) == {p \in [1..Cardinality(ms) -> ms] :
                 \A i, j \in 1..Cardinality(ms) : p[i] = p[j] => i = j}

\* Reload of modules edited so that each can be recompiled once the modules
\* of the list it imports from have been: A imports B's new g, and B may
\* import C's new g; the list is in any order.
NextChain ==
    \/ /\ pc = "idle" /\ ncalls < MaxCalls
       /\ \/ \E batch \in Perms({"A", "B", "C"}) :
                Reload(batch, Files("A_needs", "B_fromC", "C_plus"))
          \/ \E batch \in Perms({"B", "C"}) :
                Reload(batch, Files(file["A"], "B_fromC", "C_plus"))
          \/ \E batch \in Perms({"A", "B"}) :
                Reload(batch, Files("A_needs", "B_plus", file["C"]))
    \/ Attempt
    \/ Drain
    \/ Update
    \/ Return

SpecChain == InitFrom("A_base", "B_base", "C_base") /\ [][NextChain]_vars

\* ------------------------------------------------------------ properties
Returned(kind) == pc = "idle" /\ outcome = "returned" /\ call = kind
Succeeded(m) == m \in SeqRange(reloaded_mods)
Failed(m) == m \in errors

\* What module m exports in table d, and the exports m owns.
Exports(d, m) == {d[m][k] : k \in Keys} \ {Absent}
OwnExports(d, o, m) == {x \in Exports(d, m) : o[x].mod = m}

\* C1: when reload of B (a list holding only B) has returned and B was
\* recompiled, every name n of another module A that was bound, when the call
\* was made, to a function or class d that B then exported and owned, is bound
\* to a Definition B now exports and owns under d's __name__, and no longer to
\* d, whenever B exports such a Definition; n need not be d's __name__.
C1_ExternalBindingRepointed ==
    Returned("reload") =>
        \A B \in SeqRange(mods), A \in Units \ SeqRange(mods), n \in Keys :
            LET d == pre.dict[A][n]
                same == {x \in OwnExports(dict, objs, B) :
                            objs[x].name = pre.objs[d].name}
            IN  ( /\ Succeeded(B) /\ d # Absent
                  /\ d \in OwnExports(pre.dict, pre.objs, B)
                  /\ same # {} )
                => dict[A][n] \in same /\ dict[A][n] # d

\* C1 witness: A imported B's class K as R; after reload(B), A's R is the new
\* class B exports as K.
C1_Witness ==
    /\ Returned("reload") /\ mods = <<"B">> /\ Succeeded("B")
    /\ pre.dict["A"]["R"] \in OwnExports(pre.dict, pre.objs, "B")
    /\ pre.objs[pre.dict["A"]["R"]].name = "K"
    /\ dict["A"]["R"] = dict["B"]["K"]
    /\ dict["A"]["R"] # pre.dict["A"]["R"]

\* A Definition owned by a module recompiled in this call that the module's
\* table no longer holds.
Stale(x) ==
    /\ objs[x].mod \in SeqRange(reloaded_mods)
    /\ x \notin Exports(dict, objs[x].mod)

LoadedTypes == {x \in UNION {Exports(dict, m) : m \in Units} : objs[x].kind = "cls"}

\* C2: when reload of any list has returned, no name of a module bound to
\* another module's Definition, no __bases__ entry of a class a module exports
\* and no instance's __class__ is a Definition owned by a recompiled module
\* that the module's table no longer holds.
C2_NoStaleReference ==
    Returned("reload") =>
        /\ \A u \in Units, k \in Keys :
              (dict[u][k] # Absent /\ objs[dict[u][k]].mod # u) => ~Stale(dict[u][k])
        /\ \A c \in LoadedTypes : \A i \in 1..Len(objs[c].bases) :
              ~Stale(objs[c].bases[i])
        /\ \A i \in 1..Len(itype) : ~Stale(itype[i])

\* The classes some module exported when the call was made.
PreLoadedTypes ==
    {x \in UNION {Exports(pre.dict, m) : m \in Units} : pre.objs[x].kind = "cls"}

\* The new T: T's counterpart under T's name in the new table of T's module
\* m -- a class of the same module and name -- if there is one.
HasCounterpart(m, T) ==
    /\ pre.objs[T].name \in Keys
    /\ dict[m][pre.objs[T].name] # Absent
    /\ objs[dict[m][pre.objs[T].name]].kind = "cls"
    /\ objs[dict[m][pre.objs[T].name]].mod = m
    /\ objs[dict[m][pre.objs[T].name]].name = pre.objs[T].name
Counterpart(m, T) == dict[m][pre.objs[T].name]

\* T was exported and owned by module m when the call was made, and m was
\* recompiled.
ReloadedType(m, T) ==
    /\ m \in Units /\ Succeeded(m)
    /\ T \in OwnExports(pre.dict, pre.objs, m)

\* C3: when reload has returned, every class S that was loaded when the call
\* was made has as many __bases__ entries as before; an entry that was a class
\* T of a recompiled module is the new T, at the same position, and an entry
\* owned by a module that was not recompiled is the same class as before.
C3_AncestorListRepaired ==
    Returned("reload") =>
        \A S \in PreLoadedTypes :
            /\ Len(objs[S].bases) = Len(pre.objs[S].bases)
            /\ \A p \in 1..Len(pre.objs[S].bases) :
                  LET T == pre.objs[S].bases[p]
                      m == pre.objs[T].mod
                  IN  /\ (ReloadedType(m, T) /\ HasCounterpart(m, T))
                            => objs[S].bases[p] = Counterpart(m, T)
                      /\ ~(m \in Units /\ Succeeded(m)) => objs[S].bases[p] = T

\* C3 witness: A's class S had the bases (A's g, B's K); after reload(B) its
\* second base is B's new K and its first is unchanged.
C3_Witness ==
    /\ Returned("reload") /\ Succeeded("B")
    /\ pre.dict["A"]["S"] # Absent
    /\ LET S == pre.dict["A"]["S"]
       IN  /\ Len(pre.objs[S].bases) = 2
           /\ ReloadedType("B", pre.objs[S].bases[2])
           /\ HasCounterpart("B", pre.objs[S].bases[2])
           /\ objs[S].bases[2] = dict["B"]["K"]
           /\ objs[S].bases[2] # pre.objs[S].bases[2]
           /\ objs[S].bases[1] = pre.objs[S].bases[1]

\* C4: when reload has returned, every instance whose class T was exported and
\* owned by a recompiled module when the call was made, and has a new T, has
\* the new T as its class -- or, if the assignment was refused, still T.
C4_InstanceRetargeted ==
    Returned("reload") =>
        \A i \in 1..Len(itype) :
            LET T == pre.itype[i]
                m == pre.objs[T].mod
            IN  (ReloadedType(m, T) /\ HasCounterpart(m, T))
                => IF i \in rigid THEN itype[i] = T
                   ELSE itype[i] = Counterpart(m, T)

\* C4 witness: of two instances of B's class K, one refuses the new class and
\* keeps the old one, the other has B's new K.
C4_Witness ==
    /\ Returned("reload") /\ Succeeded("B")
    /\ \E i, j \in 1..Len(itype) :
          /\ i # j /\ pre.itype[i] = pre.itype[j]
          /\ ReloadedType("B", pre.itype[i]) /\ HasCounterpart("B", pre.itype[i])
          /\ i \in rigid /\ itype[i] = pre.itype[i]
          /\ j \notin rigid /\ itype[j] = dict["B"]["K"] /\ itype[j] # pre.itype[j]

\* The call has ended, by returning or by raising.
Ended(kind) == pc = "idle" /\ call = kind /\ outcome \in {"returned", "raised"}

\* Module m's source text cannot be executed: its recompilation fails on
\* every attempt.
AlwaysFails(m) == SourceText(m, file[m]) = Source(Raise, Del, Del, Del, Del)

\* Recompiling module m now would succeed.
CanSucceed(m) == importlib_reload(m, dict, objs, SourceText(m, file[m])).ok

\* C5: when reload of a list has ended, a module of the list whose source
\* cannot be executed was attempted exactly max_fails times, is in errors and
\* not in reloaded_mods, and was logged; the call returned, so that every
\* module of reloaded_mods was propagated; and every other module of the list
\* whose recompilation can succeed is in reloaded_mods.
C5_AlwaysFailingUnit ==
    (Ended("reload") /\ \E X \in SeqRange(mods) : AlwaysFails(X)) =>
        /\ outcome = "returned"
        /\ \A X \in SeqRange(mods) :
              IF AlwaysFails(X)
              THEN /\ attempts[X] = max_fails
                   /\ Failed(X) /\ ~Succeeded(X) /\ X \in reported
              ELSE CanSucceed(X) => Succeeded(X) /\ ~Failed(X)

\* The recompilation attempts of the running call.
TotalAttempts == attempts["A"] + attempts["B"] + attempts["C"]

\* C6 (its safety part): once the loop of a reload call has ended, at most
\* max_fails * len(mods) attempts were made and every module of the list is
\* in exactly one of reloaded_mods and errors.
C6_ExactlyOneTerminalState ==
    (call = "reload" /\ pc \in {"updating", "idle"}) =>
        /\ TotalAttempts <= max_fails * Len(mods)
        /\ \A m \in SeqRange(mods) : Succeeded(m) # Failed(m)

\* C10: while the loop of a reload call runs, a module that is in
\* reloaded_mods or in errors is not attempted again, and stays where it is.
C10_TerminalNotReentered ==
    [][\A m \in Units :
          (pc = "reloading" /\ (Succeeded(m) \/ Failed(m))) =>
              /\ attempts'[m] = attempts[m]
              /\ (m \in SeqRange(reloaded_mods')) = Succeeded(m)
              /\ (m \in errors') = Failed(m)]_vars

\* C7: when reload has returned, for a module X that is in errors, compared
\* with the state in which the loop ended: every name of another module that
\* was bound to an object of X is bound to the same object, every __bases__
\* entry that was a class of X is the same class, and every instance of a
\* class of X has the same __class__.
C7_FailedUnitNotPropagated ==
    Returned("reload") =>
        \A X \in errors :
            /\ \A u \in Units \ {X}, k \in Keys :
                  (mid.dict[u][k] # Absent /\ mid.objs[mid.dict[u][k]].mod = X)
                      => dict[u][k] = mid.dict[u][k]
            /\ \A c \in 1..Len(mid.objs) : \A p \in 1..Len(mid.objs[c].bases) :
                  mid.objs[mid.objs[c].bases[p]].mod = X
                      => /\ Len(objs[c].bases) = Len(mid.objs[c].bases)
                         /\ objs[c].bases[p] = mid.objs[c].bases[p]
            /\ \A i \in 1..Len(mid.itype) :
                  mid.objs[mid.itype[i]].mod = X => itype[i] = mid.itype[i]

\* reload was called on the list of the single module U, whose source text
\* was the one U had last executed, and has returned.
UnchangedReload(U) ==
    /\ Returned("reload") /\ mods = <<U>>
    /\ pre.loaded[U] = file[U]

\* C8 as stated: after reload of the single module U, whose source has not
\* changed, every name of a module that was or is bound to another module's
\* object is bound to the same object as before, every class loaded before
\* has the same __bases__, and every instance has the same __class__.
C8_UnchangedReloadChangesNothing ==
    \A U \in Units :
        UnchangedReload(U) =>
            /\ \A u \in Units, k \in Keys :
                  ( \/ (dict[u][k] # Absent /\ objs[dict[u][k]].mod # u)
                    \/ (pre.dict[u][k] # Absent /\ pre.objs[pre.dict[u][k]].mod # u) )
                      => dict[u][k] = pre.dict[u][k]
            /\ \A S \in PreLoadedTypes : objs[S].bases = pre.objs[S].bases
            /\ itype = pre.itype

\* x is, after the call, what d was before it: d itself, or an object of the
\* same kind, module and name that U's table now holds in place of d.
SameUpToRecompile(U, d, x) ==
    \/ x = d
    \/ /\ d \in OwnExports(pre.dict, pre.objs, U)
       /\ x \in OwnExports(dict, objs, U)
       /\ objs[x].kind = pre.objs[d].kind /\ objs[x].name = pre.objs[d].name

\* C8 amended: after reload of the single module U, whose source has not
\* changed, no name is added to or removed from another module; a name of
\* another module, a __bases__ entry and an instance's __class__ that was an object U
\* exported and owned is now that object or the object of the same kind and
\* name U exports in its place -- for a name that U exports under the object's
\* own __name__, the new object -- and every other one is the same object as
\* before, at the same position.
C8_UnchangedReloadRepoints ==
    \A U \in Units :
        (UnchangedReload(U) /\ Succeeded(U)) =>
            /\ \A u \in Units \ {U}, k \in Keys :
                  /\ (dict[u][k] = Absent) = (pre.dict[u][k] = Absent)
                  /\ pre.dict[u][k] # Absent =>
                        /\ SameUpToRecompile(U, pre.dict[u][k], dict[u][k])
                        /\ ( /\ pre.dict[u][k] \in OwnExports(pre.dict, pre.objs, U)
                              /\ pre.dict[U][pre.objs[pre.dict[u][k]].name] = pre.dict[u][k] )
                              => dict[u][k] \in OwnExports(dict, objs, U) \ {pre.dict[u][k]}
            /\ \A S \in PreLoadedTypes :
                  /\ Len(objs[S].bases) = Len(pre.objs[S].bases)
                  /\ \A p \in 1..Len(pre.objs[S].bases) :
                        SameUpToRecompile(U, pre.objs[S].bases[p], objs[S].bases[p])
            /\ \A i \in 1..Len(pre.itype) :
                  SameUpToRecompile(U, pre.itype[i], itype[i])

\* C8 witness: reload(B) with B's source unchanged; A's names f and R are
\* bound to the new objects B exports as f and K, not to the old ones.
C8_Witness ==
    /\ UnchangedReload("B") /\ Succeeded("B")
    /\ pre.dict["A"]["f"] = pre.dict["B"]["f"] /\ pre.dict["A"]["f"] # Absent
    /\ pre.dict["A"]["R"] = pre.dict["B"]["K"] /\ pre.dict["A"]["R"] # Absent
    /\ dict["A"]["f"] = dict["B"]["f"] /\ dict["A"]["f"] # pre.dict["A"]["f"]
    /\ dict["A"]["R"] = dict["B"]["K"] /\ dict["A"]["R"] # pre.dict["A"]["R"]

\* x is what a wrapper returns for the function f of module U: f itself, or
\* an object made from f that was passed the name "U.<f's __name__>".
WrappedOf(U, f, x) ==
    \/ x = f
    \/ /\ x # Absent /\ objs[x].inner = f
       /\ objs[x].qn = <<U, pre.objs[f].name>>

\* C9: when wrap has returned, for every module U of the list and every key k
\* under which U exported a function f it owns, U's table holds under k the
\* wrapper's result for (f, "U.<name>"), and every name of another module
\* that was bound to f is bound to that same result; an object U exported but
\* does not own was not passed to the wrapper on U's behalf.
C9_WrappedEverywhere ==
    Returned("wrap") =>
        \A U \in SeqRange(mods), k \in Keys :
            LET f == pre.dict[U][k]
            IN  /\ (f # Absent /\ pre.objs[f].mod = U /\ pre.objs[f].kind = "fn") =>
                      /\ WrappedOf(U, f, dict[U][k])
                      /\ \A A \in Units \ {U}, n \in Keys :
                            pre.dict[A][n] = f => dict[A][n] = dict[U][k]
                /\ (f # Absent /\ pre.objs[f].mod # U) =>
                      ~\E x \in 1..Len(objs) :
                          objs[x].inner = f /\ objs[x].qn # <<>> /\ objs[x].qn[1] = U

\* The step is an iteration of the loop in which importlib.reload(mod) raised
\* with the failure count still below max_fails.
FailedBelowBudget(mod) ==
    /\ pc = "reloading" /\ to_reload # <<>> /\ Head(to_reload) = mod
    /\ attempts'[mod] = attempts[mod] + 1
    /\ Len(reloaded_mods') = Len(reloaded_mods)
    /\ fail_counter[mod] + 1 < max_fails

\* C11: when an attempt of a module fails with its failure count still below
\* max_fails, the other pending entries keep their order and the module comes
\* after every other module that was pending: it is pending once more, at the
\* back, and nowhere before another module.
C11_RequeuedBehindPending ==
    [][\A mod \in Units :
          FailedBelowBudget(mod) =>
              /\ to_reload' = Append(Tail(to_reload), mod)
              /\ \A i, j \in 1..Len(to_reload') :
                    (to_reload'[i] = mod /\ to_reload'[j] # mod) => j < i]_vars

\* The iterations of the loop of update_stale_modules_and_instances that have
\* run for module m in this call.
PropagationRuns(m) == Cardinality({i \in 1..(ui - 1) : stale_mods[i] = m})

\* C12: while the loop of a reload call runs, nothing is rewritten but the
\* table of the module being recompiled -- no name of another module, no
\* existing object's __bases__ and no instance's __class__ -- and when the
\* call returns the propagation has run exactly once for every module of
\* reloaded_mods.
C12_PropagationAfterDrain ==
    [][ /\ (pc = "reloading" /\ call = "reload") =>
              /\ itype' = itype
              /\ \A x \in 1..Len(objs) : objs'[x] = objs[x]
              /\ \A u \in Units, k \in Keys :
                    dict'[u][k] # dict[u][k] => (to_reload # <<>> /\ u = Head(to_reload))
        /\ (pc = "updating" /\ pc' = "idle" /\ call = "reload" /\ outcome' = "returned") =>
              \A m \in Units : Succeeded(m) => PropagationRuns(m) = 1 ]_vars

\* C13: a call that is made goes on to recompile or wrap and to propagate,
\* also when a loaded module raises while the reference cache is built: the
\* call does not end in the scan.
C13_ScanErrorNotEscalated ==
    [][ncalls' = ncalls + 1 =>
          (outcome' = "running" /\ pc' \in {"reloading", "updating"})]_vars

\* The iteration of update_stale_modules_and_instances that is due, as it
\* would run if no instance refused a new __class__.
UnrefusedUpdate ==
    update_stale_module(stale_mods[ui], dict, objs, itype, old_members_map,
                        reference_cache, instance_cache, {})

\* C14: every iteration of update_stale_modules_and_instances does what it
\* would do if no instance refused its new __class__ -- the same names and
\* __bases__ are rewritten, every instance that does not refuse is retyped,
\* the loop goes on to the next module and raises only if it would have
\* raised anyway -- except that an instance that refuses keeps its class.
C14_RejectionIsLocal ==
    [][(pc = "updating" /\ ui <= Len(stale_mods)) =>
          /\ (outcome' = "raised") = ~UnrefusedUpdate.ok
          /\ UnrefusedUpdate.ok => (pc' = "updating" /\ ui' = ui + 1)
          /\ dict' = UnrefusedUpdate.dict /\ objs' = UnrefusedUpdate.objs
          /\ \A i \in 1..Len(itype) :
                itype'[i] = IF i \in rigid THEN itype[i]
                            ELSE UnrefusedUpdate.itype[i]]_vars

\* C14 witness: reload([A, B]) has returned; an instance of a class of A
\* refused the new class, the other instance of that class has it, and the
\* instances of B's class K, propagated afterwards, have B's new K.
C14_Witness ==
    /\ Returned("reload") /\ reloaded_mods = <<"A", "B">>
    /\ \E i \in rigid, j \in 1..Len(itype) \ rigid :
          /\ pre.itype[i] = pre.itype[j]
          /\ ReloadedType("A", pre.itype[i]) /\ HasCounterpart("A", pre.itype[i])
          /\ itype[i] = pre.itype[i]
          /\ itype[j] = Counterpart("A", pre.itype[j]) /\ itype[j] # pre.itype[j]
    /\ \E k \in 1..Len(itype) :
          /\ ReloadedType("B", pre.itype[k])
          /\ itype[k] = dict["B"]["K"] /\ itype[k] # pre.itype[k]

\* The table of T's module m holds nothing under T's __name__.
NoCounterpart(m, T) ==
    pre.objs[T].name \notin Keys \/ dict[m][pre.objs[T].name] = Absent

\* C15: when reload has returned, for every class T a recompiled module
\* exported and owned when the call was made and whose __name__ the module's
\* table no longer holds: every __bases__ entry that was T is T and every
\* instance of T has T as its class; the instances of the classes that do
\* have a counterpart are retyped all the same.  And a reload call raises
\* only in update_subclasses for a class whose __name__ the table does hold.
C15_RemovedTypeSkipped ==
    /\ Returned("reload") =>
          /\ \A T \in PreLoadedTypes :
                (ReloadedType(pre.objs[T].mod, T) /\ NoCounterpart(pre.objs[T].mod, T)) =>
                    /\ \A S \in 1..Len(pre.objs) :
                          \A p \in 1..Len(pre.objs[S].bases) :
                              pre.objs[S].bases[p] = T =>
                                  /\ Len(objs[S].bases) = Len(pre.objs[S].bases)
                                  /\ objs[S].bases[p] = T
                    /\ \A i \in 1..Len(pre.itype) : pre.itype[i] = T => itype[i] = T
          /\ \A i \in 1..Len(pre.itype) \ rigid :
                LET T == pre.itype[i]
                IN  (ReloadedType(pre.objs[T].mod, T) /\ HasCounterpart(pre.objs[T].mod, T))
                        => itype[i] = Counterpart(pre.objs[T].mod, T)
    /\ (Ended("reload") /\ outcome = "raised") =>
          \E T \in SeqRange(old_internal_classes(objs, old_members_map, stale_mods[ui])) :
              LET new_class == new_class_of(dict, objs, stale_mods[ui], T)
              IN  new_class # Absent /\ ~update_subclasses(objs, T, new_class).ok

\* C15 witness: reload of A and B has returned; A no longer holds its class g
\* and B holds nothing under K; g is still the first base of A's old class S,
\* the instances of g and of B's old K have the class they had, and an
\* instance of A's old S has A's new S.
C15_Witness ==
    /\ Returned("reload") /\ Succeeded("A") /\ Succeeded("B")
    /\ pre.dict["A"]["g"] # Absent /\ dict["A"]["g"] = Absent
    /\ pre.dict["B"]["K"] # Absent /\ dict["B"]["K"] = Absent
    /\ pre.dict["A"]["S"] # Absent /\ dict["A"]["S"] # Absent
    /\ pre.objs[pre.dict["A"]["S"]].bases[1] = pre.dict["A"]["g"]
    /\ objs[pre.dict["A"]["S"]].bases[1] = pre.dict["A"]["g"]
    /\ \E i, j, k \in 1..Len(itype) :
          /\ pre.itype[i] = pre.dict["A"]["g"] /\ itype[i] = pre.itype[i]
          /\ pre.itype[j] = pre.dict["B"]["K"] /\ itype[j] = pre.itype[j]
          /\ pre.itype[k] = pre.dict["A"]["S"] /\ itype[k] = dict["A"]["S"]
          /\ itype[k] # pre.itype[k]

\* The staleness set of the running call, from the state the call was made in.
OwnOldSet == build_old_members_set(pre.dict, pre.objs, mods)

\* C16: in every call of a sequence of calls, while the call runs the four
\* caches are the ones built from the modules of this call's list in the
\* state the call was made in, with no entry of an earlier call; and when it
\* has ended, an instance whose class changed, a name of a module outside
\* the list that was rebound, and a class whose __bases__ changed referred,
\* when the call was made, to a member of this call's staleness set.
C16_CachesRebuiltPerCall ==
    /\ pc \in {"reloading", "updating"} =>
          /\ old_members_set = OwnOldSet
          /\ old_members_map = build_old_members_map(pre.dict, mods)
          /\ reference_cache =
                build_external_reference_cache(1, pre.dict, pre.objs, OwnOldSet)
          /\ instance_cache = build_instance_cache(pre.itype, OwnOldSet)
    /\ (pc = "idle" /\ ncalls > 0) =>
          /\ \A i \in 1..Len(pre.itype) :
                itype[i] # pre.itype[i] => pre.itype[i] \in OwnOldSet
          /\ \A u \in Units \ SeqRange(mods), k \in Keys :
                dict[u][k] # pre.dict[u][k] => pre.dict[u][k] \in OwnOldSet
          /\ \A S \in 1..Len(pre.objs) :
                objs[S].bases # pre.objs[S].bases =>
                    \E p \in 1..Len(pre.objs[S].bases) :
                        pre.objs[S].bases[p] \in OwnOldSet

\* C16 witness: a second call, reload(B), has returned after an earlier call
\* that retyped an instance of a class of A; that instance, not cached by
\* this call, has the class it had, and an instance of B's class was retyped.
C16_Witness ==
    /\ Returned("reload") /\ ncalls = 2 /\ mods = <<"B">> /\ Succeeded("B")
    /\ \E i, j \in 1..Len(pre.itype) :
          /\ pre.objs[pre.itype[i]].mod = "A"
          /\ pre.itype[i] > Len(Loaded("A_base", "B_base", "C_base").objs)
          /\ instance_cache[i] = Absent /\ itype[i] = pre.itype[i]
          /\ pre.objs[pre.itype[j]].mod = "B" /\ itype[j] # pre.itype[j]

\* C17: when wrap has returned, every class T that a module U of the list
\* exported and owned is still the object U holds under the same key, and
\* every member of T's own __dict__ has the binding kind it had; a function,
\* classmethod or staticmethod member was passed to the wrapper exactly once,
\* with the name "U.T.member", and a member of another kind not at all; the
\* classes of the other modules are as they were.
C17_ClassMembersWrappedOnce ==
    Returned("wrap") =>
        \A T \in PreLoadedTypes :
            LET U == pre.objs[T].mod
                old == pre.objs[T].members
                new == objs[T].members
            IN  IF U \in SeqRange(mods) /\ T \in OwnExports(pre.dict, pre.objs, U)
                THEN /\ \A k \in Keys : pre.dict[U][k] = T => dict[U][k] = T
                     /\ Len(new) = Len(old)
                     /\ \A i \in 1..Len(old) :
                           /\ new[i].name = old[i].name
                           /\ new[i].binding = old[i].binding
                           /\ IF old[i].binding = "data"
                              THEN new[i] = old[i]
                              ELSE /\ new[i].calls = old[i].calls + 1
                                   /\ new[i].qn = <<U, pre.objs[T].name, old[i].name>>
                ELSE U \notin SeqRange(mods) => new = old

\* C18: a step of the propagation of a reload call changes an entry of a
\* module's table only if the entry holds, when it is changed, an object of
\* the staleness set owned by a module of reloaded_mods; so it adds no name,
\* removes none, and leaves alone a name that the holder's own recompilation
\* has bound to another object.
C18_OnlyStaleEntriesRewritten ==
    [][(pc = "updating" /\ call = "reload") =>
          \A u \in Units, k \in Keys :
              dict'[u][k] # dict[u][k] =>
                  /\ dict[u][k] # Absent /\ dict'[u][k] # Absent
                  /\ dict[u][k] \in old_members_set
                  /\ objs[dict[u][k]].mod \in SeqRange(reloaded_mods)]_vars

\* C19: when reload of B has returned, if B exported and owned two different
\* objects d1 and d2 of the same __name__ under the keys e1 and e2, still
\* exports both keys, and another module held d1 under n1 and d2 under n2,
\* then n1 is bound to what B holds under e1 and n2 to what B holds under e2.
C19_TwinsNotCollapsed ==
    Returned("reload") =>
        \A B \in Units, A \in Units, e1 \in Keys, e2 \in Keys, n1 \in Keys, n2 \in Keys :
            LET d1 == pre.dict[B][e1]
                d2 == pre.dict[B][e2]
            IN  ( /\ mods = <<B>> /\ Succeeded(B) /\ A # B
                  /\ d1 # Absent /\ d2 # Absent /\ d1 # d2
                  /\ pre.objs[d1].mod = B /\ pre.objs[d2].mod = B
                  /\ pre.objs[d1].name = pre.objs[d2].name
                  /\ pre.dict[A][n1] = d1 /\ pre.dict[A][n2] = d2
                  /\ dict[B][e1] # Absent /\ dict[B][e2] # Absent )
                => (dict[A][n1] = dict[B][e1] /\ dict[A][n2] = dict[B][e2])

\* C20: in a reload of a list of n <= max_fails different modules, each of
\* which can be recompiled exactly when the modules of the list it imports
\* from have been, no module fails more than n - 1 times and none is put in
\* errors; when the loop has ended every module of the list is in
\* reloaded_mods, whatever the order of the list.
C20_DependenciesResolved ==
    (call = "reload" /\ Len(mods) <= max_fails) =>
        /\ errors = {}
        /\ \A m \in SeqRange(mods) : fail_counter[m] <= Len(mods) - 1
        /\ pc \in {"updating", "idle"} => \A m \in SeqRange(mods) : Succeeded(m)

\* C20 witness: reload([A, B, C]), the list in the reverse of the import
\* order, has returned: A failed twice and B once before they were
\* recompiled, and all three are in reloaded_mods.
C20_Witness ==
    /\ Returned("reload") /\ mods = <<"A", "B", "C">>
    /\ fail_counter["A"] = 2 /\ fail_counter["B"] = 1 /\ fail_counter["C"] = 0
    /\ reloaded_mods = <<"C", "B", "A">> /\ errors = {}

====
